---- MODULE Spec2Model ----
(***************************************************************************)
(* A model of the syslog package (RFC 5424 message generation):            *)
(*   - StructuredData / SDElement and their serialisation,                 *)
(*   - formatSyslog, the line assembler,                                   *)
(*   - the writer (io.Writer wrapper) and the logger.                      *)
(* Byte strings are sequences of one-character strings, so that length,    *)
(* first byte, last byte and escaping are computed byte by byte.           *)
(***************************************************************************)
EXTENDS Integers, Sequences, FiniteSets, TLC

VARIABLES
    fcall,      \* one call of formatSyslog: its arguments and its outcome
    sd,         \* a StructuredData value being built by Element/Set calls
    str,        \* the outcome of the last Ids()/String() call on sd
    writers,    \* the writer instances constructed so far
    logger,     \* the logger instance of the program (NoLogger before NewLogger)
    ret,        \* the outcome of the last constructor / Write / Log call
    pc,         \* concurrent Log calls: each goroutine's position
    pending,    \* concurrent Log calls: the bytes a goroutine still has to append
    buf         \* concurrent Log calls: the content of the shared sink

vars == <<fcall, sd, str, writers, logger, ret, pc, pending, buf>>

-----------------------------------------------------------------------------
(* Byte strings                                                            *)

NL == "\n"
LT == "<"
dash == <<"-">>
empty == <<>>

RECURSIVE Concat(_)
Concat(ss) == IF ss = <<>> THEN <<>> ELSE Head(ss) \o Concat(Tail(ss))

HasPrefix(s, p) == Len(s) >= Len(p) /\ SubSeq(s, 1, Len(p)) = p
HasSuffix(s, p) == Len(s) >= Len(p) /\ SubSeq(s, Len(s) - Len(p) + 1, Len(s)) = p
Drop(s, n) == SubSeq(s, n + 1, Len(s))

\* The bytes that occur in ids and names, in ascending byte order.
byteOrder == <<"0", "1", "2", "3", "4", "5", "6", "7", "8", "9", "A", "B", "M",
               "a", "b", "d", "i", "p", "q", "r">>

Code(c) == CHOOSE i \in DOMAIN byteOrder : byteOrder[i] = c

\* Go's string comparison a < b: bytewise lexicographic.
RECURSIVE StrLess(_, _)
StrLess(a, b) ==
    IF b = <<>> THEN FALSE
    ELSE IF a = <<>> THEN TRUE
    ELSE IF Head(a) # Head(b) THEN Code(Head(a)) < Code(Head(b))
    ELSE StrLess(Tail(a), Tail(b))

\* sort.Strings: the sequence sorted ascending (by insertion).
RECURSIVE InsertSorted(_, _)
InsertSorted(x, s) ==
    IF s = <<>> THEN <<x>>
    ELSE IF StrLess(x, Head(s)) THEN <<x>> \o s
    ELSE <<Head(s)>> \o InsertSorted(x, Tail(s))

RECURSIVE SortStrings(_)
SortStrings(s) == IF s = <<>> THEN <<>> ELSE InsertSorted(Head(s), SortStrings(Tail(s)))

digits == <<"0", "1", "2", "3", "4", "5", "6", "7", "8", "9">>

\* strconv.Itoa / the %d verb: decimal, a minus sign for a negative number.
RECURSIVE ItoaNat(_)
ItoaNat(n) == IF n < 10 THEN <<digits[n + 1]>> ELSE ItoaNat(n \div 10) \o <<digits[(n % 10) + 1]>>

Itoa(n) == IF n < 0 THEN <<"-">> \o ItoaNat(0 - n) ELSE ItoaNat(n)

\* a | b on non-negative integers.
RECURSIVE BitOr(_, _)
BitOr(a, b) ==
    IF a = 0 THEN b
    ELSE IF b = 0 THEN a
    ELSE (IF (a % 2) + (b % 2) > 0 THEN 1 ELSE 0) + 2 * BitOr(a \div 2, b \div 2)

\* fmt.Fprintf for the verbs the package uses: %d prints an integer in decimal,
\* %s a string as it is; every other byte of the format is copied.
Verb(v, x) == IF v = "d" THEN Itoa(x) ELSE x

RECURSIVE Fprintf(_, _)
Fprintf(format, a) ==
    IF format = <<>> THEN <<>>
    ELSE IF Head(format) = "%" /\ Len(format) >= 2
         THEN Verb(format[2], Head(a)) \o Fprintf(Drop(format, 2), Tail(a))
    ELSE <<Head(format)>> \o Fprintf(Tail(format), a)

-----------------------------------------------------------------------------
(* Priorities                                                              *)

EMERG == 0
ALERT == 1
CRIT == 2
ERR == 3
WARNING == 4
NOTICE == 5
INFO == 6
DEBUG == 7

KERN == 0
USER == 8
LOCAL7 == 184

\* iota << 3 for iota = 0..23: every value a facility constant can have.
Facilities == {8 * i : i \in 0..23}
Severities == EMERG..DEBUG

version == 1

-----------------------------------------------------------------------------
(* Timestamps: time.Time.Format for the layouts the package meets          *)

rfc3339Milli == <<"2", "0", "0", "6", "-", "0", "1", "-", "0", "2", "T", "1", "5", ":",
                  "0", "4", ":", "0", "5", ".", "9", "9", "9", "-", "0", "7", ":", "0", "0">>

\* time.RFC3339, a layout a caller may pass to formatSyslog.
RFC3339 == <<"2", "0", "0", "6", "-", "0", "1", "-", "0", "2", "T", "1", "5", ":",
             "0", "4", ":", "0", "5", "Z", "0", "7", ":", "0", "0">>

Pad2(n) == <<digits[(n \div 10) + 1], digits[(n % 10) + 1]>>
Pad3(n) == <<digits[(n \div 100) + 1]>> \o Pad2(n % 100)
Pad4(n) == Pad2(n \div 100) \o Pad2(n % 100)

RECURSIVE TrimZeros(_)
TrimZeros(s) == IF s # <<>> /\ s[Len(s)] = "0" THEN TrimZeros(SubSeq(s, 1, Len(s) - 1)) ELSE s

\* The layout element ".999": the fraction with its trailing zeros removed, and
\* nothing at all (not even the point) when the fraction is zero.
Frac9(ms) == IF TrimZeros(Pad3(ms)) = <<>> THEN <<>> ELSE <<".">> \o TrimZeros(Pad3(ms))

Offset(z) == (IF z < 0 THEN <<"-">> ELSE <<"+">>)
             \o Pad2((IF z < 0 THEN 0 - z ELSE z) \div 60) \o <<":">>
             \o Pad2((IF z < 0 THEN 0 - z ELSE z) % 60)

RECURSIVE Format(_, _)
Format(t, layout) ==
    IF layout = <<>> THEN <<>>
    ELSE IF HasPrefix(layout, <<"2", "0", "0", "6">>)
         THEN Pad4(t.year) \o Format(t, Drop(layout, 4))
    ELSE IF HasPrefix(layout, <<"0", "1">>)
         THEN Pad2(t.month) \o Format(t, Drop(layout, 2))
    ELSE IF HasPrefix(layout, <<"0", "2">>)
         THEN Pad2(t.day) \o Format(t, Drop(layout, 2))
    ELSE IF HasPrefix(layout, <<"1", "5">>)
         THEN Pad2(t.hour) \o Format(t, Drop(layout, 2))
    ELSE IF HasPrefix(layout, <<"0", "4">>)
         THEN Pad2(t.min) \o Format(t, Drop(layout, 2))
    ELSE IF HasPrefix(layout, <<"0", "5">>)
         THEN Pad2(t.sec) \o Format(t, Drop(layout, 2))
    ELSE IF HasPrefix(layout, <<".", "9", "9", "9">>)
         THEN Frac9(t.ms) \o Format(t, Drop(layout, 4))
    ELSE IF HasPrefix(layout, <<"-", "0", "7", ":", "0", "0">>)
         THEN Offset(t.zone) \o Format(t, Drop(layout, 6))
    ELSE IF HasPrefix(layout, <<"Z", "0", "7", ":", "0", "0">>)
         THEN (IF t.zone = 0 THEN <<"Z">> ELSE Offset(t.zone)) \o Format(t, Drop(layout, 6))
    ELSE <<Head(layout)>> \o Format(t, Tail(layout))

\* The instants time.Now() returns in the model: 2017-08-15T23:13:15 +02:00 with
\* different milliseconds.
Instant(ms) == [year |-> 2017, month |-> 8, day |-> 15, hour |-> 23, min |-> 13,
                sec |-> 15, ms |-> ms, zone |-> 120]

Times == {Instant(ms) : ms \in {0, 5, 330, 335}}
Now == {Instant(335), Instant(0)}

-----------------------------------------------------------------------------
(* StructuredData: map[string]SDElement, SDElement: map[string]string      *)

QUOTE == "\""
BS == "\\"
RB == "]"

\* A map is a function on its key set.  A StructuredData value is a map or nil.
EmptyMap == [k \in {} |-> <<>>]
MapPut(m, k, v) == [x \in (DOMAIN m) \cup {k} |-> IF x = k THEN v ELSE m[x]]
len(m) == Cardinality(DOMAIN m)

NilSD == [isNil |-> TRUE, m |-> EmptyMap]
MkSD(m) == [isNil |-> FALSE, m |-> m]

\* The orders in which `for k := range m` may visit the keys of a map.
Perms(S) == {p \in [1..Cardinality(S) -> S] : \A i, j \in DOMAIN p : i # j => p[i] # p[j]}

\* One choice of iteration order for every map of a StructuredData value: the ids
\* in some order and, for every element, the names in some order (the order of an
\* element is the order of its own names in names[id]).
NamesIn(d) == UNION {DOMAIN d.m[id] : id \in DOMAIN d.m}

RangeOrders(d) ==
    {[ids |-> p, names |-> q] : p \in Perms(DOMAIN d.m), q \in [DOMAIN d.m -> Perms(NamesIn(d))]}

\* StructuredData.Element: the element of the id, created empty when absent.
Element(d, id) == IF id \in DOMAIN d.m THEN d ELSE MkSD(MapPut(d.m, id, EmptyMap))

\* SDElement.Set on the element of the id: e[name] = value.
Set(d, id, name, value) == MkSD(MapPut(d.m, id, MapPut(d.m[id], name, value)))

\* SDElement.Get.
Get(e, name) == IF name \in DOMAIN e THEN e[name] ELSE <<>>

\* Mutant of SelectNonEmpty: the test len(d[id]) > 0 is missing.
SelectNonEmpty_all(d, order) == order

\* The ids of an iteration order whose element has at least one parameter.
SelectNonEmpty(d, order) == SelectSeq(order, LAMBDA id : len(d.m[id]) > 0)

\* Mutant of Ids: the sort.Strings call is missing.
Ids_unsorted(d, o) == SelectNonEmpty(d, o.ids)

\* StructuredData.Ids: the ids with at least one parameter, collected in the
\* map's iteration order, then sorted.
Ids(d, o) == SortStrings(SelectNonEmpty(d, o.ids))

\* SDElement.Names: the names collected in iteration order, then sorted.
Names(d, id, o) == SortStrings(SelectSeq(o.names[id], LAMBDA name : name \in DOMAIN d.m[id]))

\* strings.NewReplacer(`"`, `\"`, `\`, `\\`, `]`, `\]`): old/new pairs.
replacer == << <<QUOTE, <<BS, QUOTE>>>>, <<BS, <<BS, BS>>>>, <<RB, <<BS, RB>>>> >>

\* Replacer.Replace: one pass over the input; at each byte the first pair whose
\* old string is that byte gives the output, any other byte is copied.
Lookup(r, b) ==
    IF \E i \in DOMAIN r : r[i][1] = b
    THEN r[CHOOSE i \in DOMAIN r : r[i][1] = b /\ \A j \in 1..(i - 1) : r[j][1] # b][2]
    ELSE <<b>>

\* strings.ReplaceAll(s, old, new) for a one-byte old.
RECURSIVE ReplaceAll(_, _, _)
ReplaceAll(s, old, new) ==
    IF s = <<>> THEN <<>>
    ELSE (IF Head(s) = old THEN new ELSE <<Head(s)>>) \o ReplaceAll(Tail(s), old, new)

\* Mutant of Replace: one whole-string pass per pair, in the order the pairs are
\* listed, so that a backslash written for a quote is escaped again.
RECURSIVE Replace_passPerPair(_, _)
Replace_passPerPair(r, s) ==
    IF r = <<>> THEN s ELSE Replace_passPerPair(Tail(r), ReplaceAll(s, r[1][1], r[1][2]))

RECURSIVE Replace(_, _)
Replace(r, s) == IF s = <<>> THEN <<>> ELSE Lookup(r, Head(s)) \o Replace(r, Tail(s))

paramFormat == <<"%", "s", "=", QUOTE, "%", "s", QUOTE>>

RECURSIVE WriteParams(_, _)
WriteParams(e, names) ==
    IF names = <<>> THEN <<>>
    ELSE <<" ">> \o Fprintf(paramFormat, <<Head(names), Replace(replacer, e[Head(names)])>>)
         \o WriteParams(e, Tail(names))

RECURSIVE WriteElements(_, _, _)
WriteElements(d, ids, o) ==
    IF ids = <<>> THEN <<>>
    ELSE (IF len(d.m[Head(ids)]) > 0
          THEN <<"[">> \o Head(ids) \o WriteParams(d.m[Head(ids)], Names(d, Head(ids), o)) \o <<RB>>
          ELSE <<>>)
         \o WriteElements(d, Tail(ids), o)

\* StructuredData.String.
String(d, o) == WriteElements(d, Ids(d, o), o)

-----------------------------------------------------------------------------
(* formatSyslog                                                            *)

defaultIfEmpty(s, def) == IF s = <<>> THEN def ELSE s

lineFormat == <<"<", "%", "d", ">", "%", "d", " ", "%", "s", " ", "%", "s", " ", "%", "s",
                " ", "%", "s", " ", "%", "s", " ", "%", "s", " ", "%", "s">>

\* The result of a call that may panic: the bytes returned, or the panic.
Returned(b) == [panic |-> FALSE, bytes |-> b]
Panicked == [panic |-> TRUE, bytes |-> <<>>]

\* Mutant of formatSyslog: procid is printed without defaultIfEmpty.
formatSyslog_rawProcid(pri, timestamp, timeFormat, hostname, appName, procid, msgid, structData, msg, o) ==
    LET tf == IF timeFormat = <<>> THEN rfc3339Milli ELSE timeFormat
        sdStr == IF ~structData.isNil THEN String(structData, o) ELSE <<>>
        b == Fprintf(lineFormat,
                     <<pri, version, Format(timestamp, tf),
                       defaultIfEmpty(hostname, dash), defaultIfEmpty(appName, dash),
                       procid, defaultIfEmpty(msgid, dash), defaultIfEmpty(sdStr, dash), msg>>)
    IN  IF msg = <<>> THEN Panicked
        ELSE IF msg[Len(msg)] # NL THEN Returned(b \o <<NL>>)
        ELSE Returned(b)

\* formatSyslog.  msg[len(msg)-1] on an empty msg is an index out of range: the
\* call panics and returns nothing.  o: the iteration order of the maps of structData.
formatSyslog(pri, timestamp, timeFormat, hostname, appName, procid, msgid, structData, msg, o) ==
    LET tf == IF timeFormat = <<>> THEN rfc3339Milli ELSE timeFormat
        ts == Format(timestamp, tf)
        sdStr == IF ~structData.isNil THEN String(structData, o) ELSE <<>>
        b == Fprintf(lineFormat,
                     <<pri, version, ts,
                       defaultIfEmpty(hostname, dash), defaultIfEmpty(appName, dash),
                       defaultIfEmpty(procid, dash), defaultIfEmpty(msgid, dash),
                       defaultIfEmpty(sdStr, dash), msg>>)
    IN  IF msg = <<>> THEN Panicked
        ELSE IF msg[Len(msg)] # NL THEN Returned(b \o <<NL>>)
        ELSE Returned(b)

-----------------------------------------------------------------------------
(* The writer                                                              *)

\* An io.Writer a writer or logger is given is named by a number: 0 is the
\* underlying sink (a buffer, a file, a socket), i > 0 is writers[i].
Sink == 0

NoError == "nil"

\* What the underlying sink's Write(p) may return: (len(p), nil), or an error with
\* fewer bytes than len(p) accepted.
SinkBehaviours == {"ok", "closed", "short"}
SinkResult(k, p) ==
    CASE k = "ok" -> [n |-> Len(p), err |-> NoError]
      [] k = "closed" -> [n |-> 0, err |-> "io: read/write on closed pipe"]
      [] k = "short" -> [n |-> Len(p) - 1, err |-> "short write"]

\* The outcome of a Write call: the values it returns, the byte sequences handed
\* to the underlying sink on the way and what the sink returned for each.
SinkWrite(p, k) ==
    LET r == SinkResult(k, p)
    IN  [n |-> r.n, err |-> r.err, handed |-> <<p>>, sink |-> <<r>>]

\* The identity a writer prints: the hostname, appName and procid it was constructed with.
writerIdentity(w) == <<w.hostname, w.appName, w.procid>>

writerFormat == <<"<", "%", "d", ">", "%", "d", " ", "%", "s", " ", "%", "s", " ", "%", "s",
                  " ", "%", "s", " ", "-", " ", "-", " ">>

\* Mutant of format: the header has one placeholder, not the two of msgId and
\* structured data.
format_onePlaceholder(w, t, d) ==
    LET b == Fprintf(SubSeq(writerFormat, 1, Len(writerFormat) - 2),
                     <<w.pri, version, Format(t, rfc3339Milli)>> \o writerIdentity(w)) \o d
    IN  IF d = <<>> THEN Panicked
        ELSE IF d[Len(d)] # NL THEN Returned(b \o <<NL>>)
        ELSE Returned(b)

\* writer.format: the header, the bytes, and a newline unless the bytes end in one.
\* d[len(d)-1] on an empty d is an index out of range.
format(w, t, d) ==
    LET b == Fprintf(writerFormat,
                     <<w.pri, version, Format(t, rfc3339Milli)>> \o writerIdentity(w)) \o d
    IN  IF d = <<>> THEN Panicked
        ELSE IF d[Len(d)] # NL THEN Returned(b \o <<NL>>)
        ELSE Returned(b)

\* Mutant of Write: the test of the first byte is missing, every input is formatted.
RECURSIVE Write_alwaysFormat(_, _, _, _, _)
Write_alwaysFormat(ws, i, d, t, k) ==
    IF Len(d) = 0 THEN [n |-> 0, err |-> NoError, handed |-> <<>>, sink |-> <<>>]
    ELSE IF ws[i].out = Sink THEN SinkWrite(format(ws[i], t, d).bytes, k)
    ELSE Write_alwaysFormat(ws, ws[i].out, format(ws[i], t, d).bytes, t, k)

\* Mutant of Write: the count returned is never more than len(d).
RECURSIVE Write_countInput(_, _, _, _, _)
Write_countInput(ws, i, d, t, k) ==
    LET p == IF d[1] # LT THEN format(ws[i], t, d).bytes ELSE d
        r == IF ws[i].out = Sink THEN SinkWrite(p, k) ELSE Write_countInput(ws, ws[i].out, p, t, k)
    IN  IF Len(d) = 0 THEN [n |-> 0, err |-> NoError, handed |-> <<>>, sink |-> <<>>]
        ELSE [r EXCEPT !.n = IF r.n > Len(d) THEN Len(d) ELSE r.n]

\* writer.Write of writers[i], t being time.Now() and k the behaviour of the
\* underlying sink; out.Write is the sink's Write or, for a writer, this function.
RECURSIVE Write(_, _, _, _, _)
Write(ws, i, d, t, k) ==
    IF Len(d) = 0 THEN [n |-> 0, err |-> NoError, handed |-> <<>>, sink |-> <<>>]
    ELSE IF d[1] # LT
         THEN (IF ws[i].out = Sink THEN SinkWrite(format(ws[i], t, d).bytes, k)
               ELSE Write(ws, ws[i].out, format(ws[i], t, d).bytes, t, k))
    ELSE (IF ws[i].out = Sink THEN SinkWrite(d, k) ELSE Write(ws, ws[i].out, d, t, k))

\* w.Write(p) for the io.Writer named w.
WriteTo(ws, w, p, t, k) == IF w = Sink THEN SinkWrite(p, k) ELSE Write(ws, w, p, t, k)

\* Mutant of validPriority: the upper limit is not tested.
validPriority_noUpper(pri) == ~(pri < 0)

\* NewWriter's test of its priority: it panics unless this holds.
validPriority(pri) == ~(pri < 0 \/ pri > BitOr(LOCAL7, DEBUG))

-----------------------------------------------------------------------------
(* The logger                                                              *)

\* The priority of a line: the facility the logger is bound to, or'ed with the
\* severity of the call.
logPriority(l, sev) == BitOr(l.facility, sev)

\* fmt.Sprintf(msgFormat, a...)
Sprintf(msgFormat, a) == Fprintf(msgFormat, a)

\* logger.Log: the line is formatted and written to l.w; what Write returns is
\* dropped, Log returns nothing.  A panic of formatSyslog ends the call before
\* anything is written.
Log(ws, l, sev, msgId, structData, msgFormat, a, t, k, o) ==
    LET line == formatSyslog(logPriority(l, sev), t, <<>>, l.hostname, l.appName, l.procid,
                             msgId, structData, Sprintf(msgFormat, a), o)
        r == WriteTo(ws, l.w, line.bytes, t, k)
    IN  IF line.panic THEN [panic |-> TRUE, handed |-> <<>>, sink |-> <<>>]
        ELSE [panic |-> FALSE, handed |-> r.handed, sink |-> r.sink]

\* Mutant of Error: the helper logs with the severity of Alert.
Error_asAlert(ws, l, msgId, structData, msgFormat, a, t, k, o) ==
    Log(ws, l, ALERT, msgId, structData, msgFormat, a, t, k, o)

Alert(ws, l, msgId, structData, msgFormat, a, t, k, o) ==
    Log(ws, l, ALERT, msgId, structData, msgFormat, a, t, k, o)
Error(ws, l, msgId, structData, msgFormat, a, t, k, o) ==
    Log(ws, l, ERR, msgId, structData, msgFormat, a, t, k, o)
Info(ws, l, msgId, structData, msgFormat, a, t, k, o) ==
    Log(ws, l, INFO, msgId, structData, msgFormat, a, t, k, o)
Debug(ws, l, msgId, structData, msgFormat, a, t, k, o) ==
    Log(ws, l, DEBUG, msgId, structData, msgFormat, a, t, k, o)

-----------------------------------------------------------------------------
(* The strings of the package's tests and examples                         *)

s_hostname == <<"h", "o", "s", "t", "n", "a", "m", "e">>
s_appName == <<"a", "p", "p", "N", "a", "m", "e">>
s_procid == <<"p", "r", "o", "c", "i", "d">>
s_laptop == <<"l", "a", "p", "t", "o", "p">>
s_testapp == <<"t", "e", "s", "t", "a", "p", "p">>
s_123 == <<"1", "2", "3">>
s_LoginFailed == <<"L", "o", "g", "i", "n", "F", "a", "i", "l", "e", "d">>
s_id1 == <<"i", "d", "1">>
s_id2 == <<"i", "d", "2">>
s_par1 == <<"p", "a", "r", "1">>
s_par2 == <<"p", "a", "r", "2">>
s_val1 == <<"v", "a", "l", "1">>
s_val2 == <<"v", "a", "l", "2">>
s_qval1 == <<"\"", "v", "a", "l", "1", "\"">>
s_hello == <<"h", "e", "l", "l", "o">>
s_helloNL == <<"h", "e", "l", "l", "o", "\n">>
s_login == <<"l", "o", "g", "i", "n", " ", "f", "a", "i", "l", "e", "d", ":", " ", "u", "s", "e", "r", "n", "a", "m", "e">>
s_twoLines == <<"a", "\n", "b">>
s_formatted == <<"<", "3", "4", ">", "1", " ", "x">>
s_formattedNL == <<"<", "3", "4", ">", "1", " ", "x", "\n">>

\* sd.Element("id1").Set("par1", "val1")
sdLogin == MkSD(s_id1 :> (s_par1 :> s_val1))

\* The value of TestStructuredData.
sdTest == MkSD((s_id1 :> ((s_par1 :> s_qval1) @@ (s_par2 :> s_val2)))
               @@ (s_id2 :> ((s_par1 :> s_val1) @@ (s_par2 :> s_val2))))

\* sd.Element("id1") and nothing set.
sdOnlyElement == MkSD(s_id1 :> EmptyMap)

-----------------------------------------------------------------------------
(* Idle values of the variables a specification does not use               *)

NoCall == [op |-> "none"]
NoLogger == [w |-> -1]

IdleFormat == fcall = NoCall
IdleSD == sd = NilSD /\ str = NoCall
IdleInstances == writers = <<>> /\ logger = NoLogger /\ ret = NoCall
IdleGoroutines == pc = <<>> /\ pending = <<>> /\ buf = <<>>

varsFormat == <<fcall>>
varsSD == <<sd, str>>
varsInstances == <<writers, logger, ret>>
varsGoroutines == <<pc, pending, buf>>

-----------------------------------------------------------------------------
(* The operations on writers and the logger                                *)

\* The outcome of a call, as its caller sees it: whether it panicked, the values it
\* returned (none for Log), the byte sequences that reached the underlying sink and
\* what the sink returned for them.
Outcome(op, obj, in, panic, returns, handed, sink) ==
    [op |-> op, obj |-> obj, in |-> in, panic |-> panic, returns |-> returns,
     handed |-> handed, sink |-> sink]

\* The caller is between two calls: it holds no outcome.
Ready == ret = NoCall

\* The caller has looked at the outcome of its last call and goes on.
Continue ==
    /\ ret # NoCall
    /\ ret' = NoCall
    /\ UNCHANGED <<writers, logger, varsFormat, varsSD, varsGoroutines>>

InitInstances ==
    /\ writers = <<>>
    /\ logger = NoLogger
    /\ ret = NoCall
    /\ IdleFormat /\ IdleSD /\ IdleGoroutines

\* NewWriter(out, pri, hostname, appName, procid)
NewWriter(out, pri, hostname, appName, procid) ==
    /\ Ready
    /\ IF validPriority(pri)
       THEN /\ writers' = Append(writers, [out |-> out, pri |-> pri, hostname |-> hostname,
                                           appName |-> appName, procid |-> procid])
            /\ ret' = Outcome("NewWriter", Len(writers) + 1, [out |-> out, pri |-> pri],
                              FALSE, <<Len(writers) + 1>>, <<>>, <<>>)
       ELSE /\ writers' = writers
            /\ ret' = Outcome("NewWriter", 0, [out |-> out, pri |-> pri], TRUE, <<>>, <<>>, <<>>)
    /\ UNCHANGED <<logger, varsFormat, varsSD, varsGoroutines>>

\* NewLogger(w, facility, hostname, appName, procid)
NewLogger(w, facility, hostname, appName, procid) ==
    /\ Ready
    /\ logger' = [w |-> w, facility |-> facility, hostname |-> hostname,
                  appName |-> appName, procid |-> procid]
    /\ ret' = Outcome("NewLogger", 0, [w |-> w, facility |-> facility], FALSE, <<0>>, <<>>, <<>>)
    /\ UNCHANGED <<writers, varsFormat, varsSD, varsGoroutines>>

\* writers[i].Write(d)
WriteCall(i, d) ==
    /\ Ready
    /\ \E t \in Now, k \in SinkBehaviours :
          LET r == Write(writers, i, d, t, k)
          IN  ret' = Outcome("Write", i, [d |-> d, t |-> t, k |-> k], FALSE,
                             <<r.n, r.err>>, r.handed, r.sink)
    /\ UNCHANGED <<writers, logger, varsFormat, varsSD, varsGoroutines>>

\* The arguments of a Log call or of a helper.
CallArgs(sev, c, t, k) ==
    [sev |-> sev, msgId |-> c.msgId, sd |-> c.sd, msgFormat |-> c.msgFormat, a |-> c.a,
     t |-> t, k |-> k]

\* logger.Log(sev, msgId, sd, msgFormat, a...)
LogCall(sev, c) ==
    /\ Ready /\ logger # NoLogger
    /\ \E t \in Now, k \in SinkBehaviours, o \in RangeOrders(c.sd) :
          LET r == Log(writers, logger, sev, c.msgId, c.sd, c.msgFormat, c.a, t, k, o)
          IN  ret' = Outcome("Log", 0, CallArgs(sev, c, t, k), r.panic, <<>>, r.handed, r.sink)
    /\ UNCHANGED <<writers, logger, varsFormat, varsSD, varsGoroutines>>

\* syslog.Alert(logger, msgId, sd, format, a...)
AlertCall(c) ==
    /\ Ready /\ logger # NoLogger
    /\ \E t \in Now, k \in SinkBehaviours, o \in RangeOrders(c.sd) :
          LET r == Alert(writers, logger, c.msgId, c.sd, c.msgFormat, c.a, t, k, o)
          IN  ret' = Outcome("Alert", 0, CallArgs(ALERT, c, t, k), r.panic, <<>>, r.handed, r.sink)
    /\ UNCHANGED <<writers, logger, varsFormat, varsSD, varsGoroutines>>

\* syslog.Error(logger, msgId, sd, format, a...)
ErrorCall(c) ==
    /\ Ready /\ logger # NoLogger
    /\ \E t \in Now, k \in SinkBehaviours, o \in RangeOrders(c.sd) :
          LET r == Error(writers, logger, c.msgId, c.sd, c.msgFormat, c.a, t, k, o)
          IN  ret' = Outcome("Error", 0, CallArgs(ERR, c, t, k), r.panic, <<>>, r.handed, r.sink)
    /\ UNCHANGED <<writers, logger, varsFormat, varsSD, varsGoroutines>>

\* syslog.Info(logger, msgId, sd, format, a...)
InfoCall(c) ==
    /\ Ready /\ logger # NoLogger
    /\ \E t \in Now, k \in SinkBehaviours, o \in RangeOrders(c.sd) :
          LET r == Info(writers, logger, c.msgId, c.sd, c.msgFormat, c.a, t, k, o)
          IN  ret' = Outcome("Info", 0, CallArgs(INFO, c, t, k), r.panic, <<>>, r.handed, r.sink)
    /\ UNCHANGED <<writers, logger, varsFormat, varsSD, varsGoroutines>>

\* syslog.Debug(logger, msgId, sd, format, a...)
DebugCall(c) ==
    /\ Ready /\ logger # NoLogger
    /\ \E t \in Now, k \in SinkBehaviours, o \in RangeOrders(c.sd) :
          LET r == Debug(writers, logger, c.msgId, c.sd, c.msgFormat, c.a, t, k, o)
          IN  ret' = Outcome("Debug", 0, CallArgs(DEBUG, c, t, k), r.panic, <<>>, r.handed, r.sink)
    /\ UNCHANGED <<writers, logger, varsFormat, varsSD, varsGoroutines>>

-----------------------------------------------------------------------------
(* Spec: writers on the sink or on one another, a logger on any of them    *)

MaxWriters == 2

Identity(h, a, p) == [hostname |-> h, appName |-> a, procid |-> p]
idLaptop == Identity(s_laptop, s_testapp, s_123)
idHost == Identity(s_hostname, s_appName, s_procid)

\* The priorities and identities NewWriter is called with.
WriterArgs == {[pri |-> 13, id |-> idLaptop], [pri |-> 191, id |-> idHost],
               [pri |-> 200, id |-> idLaptop], [pri |-> -1, id |-> idHost]}

LoggerArgs == {[facility |-> USER, id |-> idHost], [facility |-> LOCAL7, id |-> Identity(<<>>, <<>>, <<>>)]}

WriteInputs == {<<>>, s_hello, s_helloNL, s_formatted, s_formattedNL}

Message(msgId, structData, msgFormat, a) ==
    [msgId |-> msgId, sd |-> structData, msgFormat |-> msgFormat, a |-> a]

\* "login failed: %s" and its argument.
s_loginFormat == <<"l", "o", "g", "i", "n", " ", "f", "a", "i", "l", "e", "d", ":", " ", "%", "s">>
s_username == <<"u", "s", "e", "r", "n", "a", "m", "e">>

msgLogin == Message(s_LoginFailed, sdLogin, s_loginFormat, <<s_username>>)
msgHello == Message(<<>>, NilSD, s_helloNL, <<>>)
msgEmpty == Message(<<>>, NilSD, <<"%", "s">>, <<(<<>>)>>)

Messages == {msgLogin, msgHello, msgEmpty}

Init == InitInstances

Next ==
    \/ \E out \in 0..Len(writers), a \in WriterArgs :
          /\ Len(writers) < MaxWriters
          /\ NewWriter(out, a.pri, a.id.hostname, a.id.appName, a.id.procid)
    \/ \E w \in 0..Len(writers), a \in LoggerArgs :
          NewLogger(w, a.facility, a.id.hostname, a.id.appName, a.id.procid)
    \/ \E i \in 1..Len(writers), d \in WriteInputs : WriteCall(i, d)
    \/ \E sev \in {ERR, NOTICE}, c \in Messages : LogCall(sev, c)
    \/ Continue

Spec == Init /\ [][Next]_vars

-----------------------------------------------------------------------------
(* SpecPriority: NewWriter for every priority around the valid range       *)

PriorityArgs == (-3..194) \cup {200}

NextPriority ==
    \/ \E pri \in PriorityArgs :
          /\ writers = <<>>
          /\ NewWriter(Sink, pri, s_laptop, s_testapp, s_123)
    \/ \E i \in 1..Len(writers) : WriteCall(i, s_hello)
    \/ Continue

SpecPriority == Init /\ [][NextPriority]_vars

-----------------------------------------------------------------------------
(* SpecLogger: a logger of every facility, called with every severity      *)

NextLogger ==
    \/ \E facility \in Facilities :
          /\ logger = NoLogger
          /\ NewLogger(Sink, facility, s_hostname, s_appName, s_procid)
    \/ \E sev \in Severities : LogCall(sev, msgLogin)
    \/ AlertCall(msgLogin)
    \/ ErrorCall(msgLogin)
    \/ InfoCall(msgHello)
    \/ DebugCall(msgHello)
    \/ Continue

SpecLogger == Init /\ [][NextLogger]_vars

-----------------------------------------------------------------------------
(* SpecFormat: formatSyslog as a function of its arguments                 *)

FormatPris == {0, 7, 11, 13, 100, 191}
FormatLayouts == {<<>>, RFC3339}
FormatStrings(s) == {<<>>, s}
FormatSDs == {NilSD, MkSD(EmptyMap), sdOnlyElement, sdLogin, sdTest}
FormatMsgs == {<<>>, s_hello, s_helloNL, s_login, s_twoLines, <<NL>>}

InitFormat ==
    /\ fcall \in [op : {"args"}, pri : FormatPris, timestamp : Now, timeFormat : FormatLayouts,
                  hostname : FormatStrings(s_hostname), appName : FormatStrings(s_appName),
                  procid : FormatStrings(s_procid), msgid : FormatStrings(s_LoginFailed),
                  structData : FormatSDs, msg : FormatMsgs, out : {Panicked}]
    /\ IdleSD /\ IdleInstances /\ IdleGoroutines

\* The call: formatSyslog applied to the arguments, under any iteration order of
\* the maps of the structured data.
FormatSyslog ==
    /\ fcall.op = "args"
    /\ \E o \in RangeOrders(fcall.structData) :
          fcall' = [fcall EXCEPT !.op = "formatSyslog",
                                 !.out = formatSyslog(fcall.pri, fcall.timestamp, fcall.timeFormat,
                                                      fcall.hostname, fcall.appName, fcall.procid,
                                                      fcall.msgid, fcall.structData, fcall.msg, o)]
    /\ UNCHANGED <<varsSD, varsInstances, varsGoroutines>>

NextFormat == FormatSyslog

SpecFormat == InitFormat /\ [][NextFormat]_vars

-----------------------------------------------------------------------------
(* C1: the line formatSyslog builds                                        *)

\* A header field: the placeholder for an empty string, the string otherwise.
FieldOf(x) == IF x = <<>> THEN dash ELSE x

\* The structured-data field: the placeholder for nil or an empty serialisation.
SDFieldOf(d) ==
    IF d.isNil \/ (\A o \in RangeOrders(d) : String(d, o) = <<>>) THEN dash
    ELSE String(d, CHOOSE o \in RangeOrders(d) : TRUE)

TimestampOf(c) == Format(c.timestamp, IF c.timeFormat = <<>> THEN rfc3339Milli ELSE c.timeFormat)

\* <PRI>1 TS HOST APP PROCID MSGID SD BODY, single spaces, nothing between > and 1.
LineOf(c) ==
    <<LT>> \o Itoa(c.pri) \o <<">", "1", " ">> \o TimestampOf(c)
    \o <<" ">> \o FieldOf(c.hostname) \o <<" ">> \o FieldOf(c.appName)
    \o <<" ">> \o FieldOf(c.procid) \o <<" ">> \o FieldOf(c.msgid)
    \o <<" ">> \o SDFieldOf(c.structData) \o <<" ">> \o c.msg

\* C1: for every priority, identity, msgId, structured data and non-empty body the
\* formatted line is <PRI>1 TS HOST APP PROCID MSGID SD BODY in that order, single
\* spaces between the fields, each of HOST, APP, PROCID, MSGID being "-" exactly for
\* an empty string and SD being "-" exactly for nil or an empty serialisation; the
\* only byte that may follow the body is the terminating newline.
C1_LineLayout ==
    (fcall.op = "formatSyslog" /\ fcall.msg # <<>>) =>
        /\ ~fcall.out.panic
        /\ fcall.out.bytes \in {LineOf(fcall), LineOf(fcall) \o <<NL>>}

\* An empty hostname and procid beside a message id and serialised structured data.
C1_Witness ==
    /\ fcall.op = "formatSyslog"
    /\ fcall.hostname = <<>> /\ fcall.procid = <<>> /\ fcall.appName = s_appName
    /\ fcall.msgid = s_LoginFailed /\ fcall.structData = sdLogin /\ fcall.msg = s_login
    /\ fcall.pri = 11 /\ fcall.timeFormat = <<>> /\ fcall.timestamp = Instant(335)
    /\ fcall.out.bytes = <<"<", "1", "1", ">", "1", " ">> \o Format(Instant(335), rfc3339Milli)
                         \o <<" ", "-", " ">> \o s_appName \o <<" ", "-", " ">> \o s_LoginFailed
                         \o <<" ", "[", "i", "d", "1", " ", "p", "a", "r", "1", "=", QUOTE,
                              "v", "a", "l", "1", QUOTE, "]", " ">> \o s_login \o <<NL>>

-----------------------------------------------------------------------------
(* SpecSD: a StructuredData value built by Element and Set calls           *)

SDIds == {<<"i">>, s_id1, s_id2}
SDNames == {s_par1, s_par2}
SDValues == {s_val2, s_qval1}

\* sd := syslog.StructuredData{}
InitSD ==
    /\ sd = MkSD(EmptyMap)
    /\ str = NoCall
    /\ IdleFormat /\ IdleInstances /\ IdleGoroutines

\* sd.Element(id)
ElementCall(id) ==
    /\ sd' = Element(sd, id)
    /\ str' = NoCall
    /\ UNCHANGED <<varsFormat, varsInstances, varsGoroutines>>

\* e.Set(name, value) on e, an element Element(id) returned earlier: the element is
\* a map, so the call changes the element stored in sd.
SetCall(id, name, value) ==
    /\ id \in DOMAIN sd.m
    /\ sd' = Set(sd, id, name, value)
    /\ str' = NoCall
    /\ UNCHANGED <<varsFormat, varsInstances, varsGoroutines>>

\* sd.Ids(), under any iteration order of the map.
IdsCall ==
    /\ \E o \in RangeOrders(sd) : str' = [op |-> "Ids", out |-> Ids(sd, o)]
    /\ UNCHANGED <<sd, varsFormat, varsInstances, varsGoroutines>>

\* sd.String(), under any iteration order of the maps.
StringCall ==
    /\ \E o \in RangeOrders(sd) : str' = [op |-> "String", out |-> String(sd, o)]
    /\ UNCHANGED <<sd, varsFormat, varsInstances, varsGoroutines>>

NextSD ==
    \/ \E id \in SDIds : ElementCall(id)
    \/ \E id \in SDIds, name \in SDNames, value \in SDValues : SetCall(id, name, value)
    \/ IdsCall
    \/ StringCall

SpecSD == InitSD /\ [][NextSD]_vars

-----------------------------------------------------------------------------
(* C4: String() is ordered by id and by name, whatever the insertion order *)

\* The members of a set of strings as the strictly ascending sequence.
Ascending(S) == CHOOSE p \in Perms(S) : \A i, j \in DOMAIN p : i < j => StrLess(p[i], p[j])

RECURSIVE ParamsText(_, _)
ParamsText(e, names) ==
    IF names = <<>> THEN <<>>
    ELSE <<" ">> \o Head(names) \o <<"=", QUOTE>> \o Replace(replacer, e[Head(names)]) \o <<QUOTE>>
         \o ParamsText(e, Tail(names))

RECURSIVE ElementsText(_, _)
ElementsText(m, ids) ==
    IF ids = <<>> THEN <<>>
    ELSE <<"[">> \o Head(ids) \o ParamsText(m[Head(ids)], Ascending(DOMAIN m[Head(ids)])) \o <<RB>>
         \o ElementsText(m, Tail(ids))

\* The text the id -> name -> value mapping determines.
CanonicalText(m) == ElementsText(m, Ascending({id \in DOMAIN m : len(m[id]) > 0}))

\* C4: String() writes the elements in strictly ascending order of id and, in each
\* element, the parameters in strictly ascending order of name, an element being
\* [id name="escaped value" ...] with nothing between elements; the output is
\* determined by the id -> name -> value mapping alone, so two call sequences that
\* build the same mapping give the same bytes.
C4_SortedText == (str.op = "String") => (str.out = CanonicalText(sd.m))

\* The value of TestStructuredData (with val2 for val1 in id2) and its string.
C4_Witness ==
    /\ str.op = "String"
    /\ sd = MkSD((s_id1 :> ((s_par1 :> s_qval1) @@ (s_par2 :> s_val2)))
                 @@ (s_id2 :> ((s_par1 :> s_val2) @@ (s_par2 :> s_val2))))
    /\ str.out = <<"[">> \o s_id1 \o <<" ">> \o s_par1 \o <<"=", QUOTE, BS, QUOTE>> \o s_val1
                 \o <<BS, QUOTE, QUOTE, " ">> \o s_par2 \o <<"=", QUOTE>> \o s_val2 \o <<QUOTE, RB>>
                 \o <<"[">> \o s_id2 \o <<" ">> \o s_par1 \o <<"=", QUOTE>> \o s_val2
                 \o <<QUOTE, " ">> \o s_par2 \o <<"=", QUOTE>> \o s_val2 \o <<QUOTE, RB>>

-----------------------------------------------------------------------------
(* SpecEscape: String() of one parameter, for every value up to MaxValLen  *)

MaxValLen == 3

EscapeAlphabet == {"a", BS, QUOTE, RB}
EscapeValues == UNION {[1..k -> EscapeAlphabet] : k \in 0..MaxValLen}

NextEscape ==
    \/ ElementCall(s_id1)
    \/ \E value \in EscapeValues : SetCall(s_id1, s_par1, value)
    \/ StringCall

SpecEscape == InitSD /\ [][NextEscape]_vars

\* Three whole-string replacements, one after the other: \ first, then ", then ].
ThreePasses(v) ==
    ReplaceAll(ReplaceAll(ReplaceAll(v, BS, <<BS, BS>>), QUOTE, <<BS, QUOTE>>), RB, <<BS, RB>>)

\* C5: the text String() puts between the quotes is the parameter value after three
\* successive whole-string replacements: \ by \\, then " by \", then ] by \]; a
\* backslash written for a quote or a bracket is not escaped again and every other
\* byte is copied.
C5_EscapeOrder ==
    (str.op = "String" /\ DOMAIN sd.m = {s_id1} /\ DOMAIN sd.m[s_id1] = {s_par1}) =>
        str.out = <<"[">> \o s_id1 \o <<" ">> \o s_par1 \o <<"=", QUOTE>>
                  \o ThreePasses(sd.m[s_id1][s_par1]) \o <<QUOTE, RB>>

\* The value "\] : each of the three special bytes, the quote before the backslash.
C5_Witness ==
    /\ str.op = "String"
    /\ DOMAIN sd.m = {s_id1} /\ DOMAIN sd.m[s_id1] = {s_par1}
    /\ sd.m[s_id1][s_par1] = <<QUOTE, BS, RB>>
    /\ str.out = <<"[">> \o s_id1 \o <<" ">> \o s_par1
                 \o <<"=", QUOTE, BS, QUOTE, BS, BS, BS, RB, QUOTE, RB>>

-----------------------------------------------------------------------------
(* C2: the priority a logger prints                                        *)

IsCall(ops) == ret.op \in ops /\ ~ret.panic /\ ret.handed # <<>>

DigitValue(c) == (CHOOSE i \in DOMAIN digits : digits[i] = c) - 1

RECURSIVE DecimalValue(_)
DecimalValue(ds) ==
    IF ds = <<>> THEN 0 ELSE 10 * DecimalValue(SubSeq(ds, 1, Len(ds) - 1)) + DigitValue(ds[Len(ds)])

\* The severity a call logs with: the argument of Log, the helper's own otherwise.
SeverityOfCall ==
    CASE ret.op = "Log" -> ret.in.sev
      [] ret.op = "Alert" -> 1
      [] ret.op = "Error" -> 3
      [] ret.op = "Info" -> 6
      [] ret.op = "Debug" -> 7

\* The line starts with < decimal(n) >1 and a space: digits only, no sign, no
\* leading zero.
StartsWithPriority(line, n) ==
    /\ \E i \in 3..5 :
          /\ line[1] = LT /\ line[i] = ">" /\ line[i + 1] = "1" /\ line[i + 2] = " "
          /\ \A j \in 2..(i - 1) : \E v \in DOMAIN digits : digits[v] = line[j]
          /\ (i > 3 => line[2] # "0")
          /\ DecimalValue(SubSeq(line, 2, i - 1)) = n

-----------------------------------------------------------------------------
(* C3: the line a writer emits                                             *)

WriterLineOf(w, t, d) ==
    <<LT>> \o Itoa(w.pri) \o <<">", "1", " ">> \o Format(t, rfc3339Milli)
    \o <<" ">> \o w.hostname \o <<" ">> \o w.appName \o <<" ">> \o w.procid
    \o <<" ", "-", " ", "-", " ">> \o d \o (IF d[Len(d)] = NL THEN <<>> ELSE <<NL>>)

FormattedWrite == ret.op = "Write" /\ ret.in.d # <<>> /\ ret.in.d[1] # LT

-----------------------------------------------------------------------------
(* C6: the newline at the end of what reaches the sink                     *)

\* C6: every byte sequence Writer.Write or Logger.Log hands to the sink ends with
\* a newline, on the pass-through path for input that begins with < as well.
C6_EndsWithNewline ==
    (ret.op \in {"Write", "Log"}) =>
        \A i \in DOMAIN ret.handed : ret.handed[i] # <<>> /\ ret.handed[i][Len(ret.handed[i])] = NL

-----------------------------------------------------------------------------
(* C7: input that begins with < is not formatted again                     *)

\* The line a Log call formats, by the layout of C1.
LoggerLineOf(l, in) ==
    LET c == [pri |-> l.facility + in.sev, timestamp |-> in.t, timeFormat |-> <<>>,
              hostname |-> l.hostname, appName |-> l.appName, procid |-> l.procid,
              msgid |-> in.msgId, structData |-> in.sd, msg |-> Sprintf(in.msgFormat, in.a)]
    IN  LineOf(c) \o (IF c.msg[Len(c.msg)] = NL THEN <<>> ELSE <<NL>>)

\* C7: bytes that begin with < reach the sink of a Write as they are, with no
\* header before them (at most a newline after them); so a line passes any number
\* of writers with one header only, that of the writer or logger that formatted it.
C7_PassThrough ==
    /\ (ret.op = "Write" /\ ret.in.d # <<>> /\ ret.in.d[1] = LT) =>
          \/ ret.handed = <<ret.in.d>>
          \/ ret.in.d[Len(ret.in.d)] # NL /\ ret.handed = <<ret.in.d \o <<NL>>>>
    /\ FormattedWrite => ret.handed = <<WriterLineOf(writers[ret.obj], ret.in.t, ret.in.d)>>
    /\ IsCall({"Log"}) => ret.handed = <<LoggerLineOf(logger, ret.in)>>

\* A logger on a writer on a writer: the line has the logger's header.
C7_Witness ==
    /\ IsCall({"Log"})
    /\ logger.w = 2 /\ writers[2].out = 1 /\ writers[1].out = Sink
    /\ logger.facility = 8 /\ ret.in.sev = 3 /\ ret.in.msgId = s_LoginFailed
    /\ HasPrefix(ret.handed[1], <<LT, "1", "1", ">", "1", " ">>)
    /\ Len(ret.handed) = 1

-----------------------------------------------------------------------------
(* C8: the priorities NewWriter accepts                                    *)

\* C8: NewWriter(out, pri) fails exactly when pri < 0 or pri > 191; a failed call
\* produces no writer, writes nothing and does not clamp; a call with pri in 0..191
\* returns a writer bound to that pri.
C8_PriorityRange ==
    [][(ret'.op = "NewWriter" /\ ret' # ret) =>
          /\ ret'.panic <=> (ret'.in.pri < 0 \/ ret'.in.pri > 191)
          /\ ret'.handed = <<>>
          /\ ret'.panic => (writers' = writers /\ ret'.returns = <<>>)
          /\ ~ret'.panic => /\ writers' = Append(writers, writers'[Len(writers')])
                            /\ ret'.returns = <<Len(writers')>>
                            /\ writers'[Len(writers')].pri = ret'.in.pri]_vars

\* Scenario D: NewWriter with priority 200.
C8_Witness == ret.op = "NewWriter" /\ ret.in.pri = 200 /\ ret.panic /\ writers = <<>>

-----------------------------------------------------------------------------
(* C10: an error of the sink                                               *)

SinkFailed == ret.op \in {"Write", "Log"} /\ ret.sink # <<>> /\ ret.sink[1].err # NoError

\* C10: when the sink's write returns an error, the call that triggered
\* it, Writer.Write or Logger.Log, returns that error to its caller, and the write
\* is not repeated.
C10_ErrorSurfaced ==
    SinkFailed =>
        /\ Len(ret.returns) = 2 /\ ret.returns[2] = ret.sink[1].err
        /\ Len(ret.sink) = 1

-----------------------------------------------------------------------------
(* Goroutines that call Log on one logger                                  *)

\* The goroutines, each of which calls l.Log once.
Goroutines == {1, 2}

\* The largest number of pieces in which the sink takes the bytes of one Write.
MaxPieces == 2

\* A goroutine that has not called Log yet.
NotStarted == [at |-> "go", line |-> <<>>, pieces |-> 0]

\* l := syslog.NewLogger(buf, syslog.USER, "hostname", "appName", "procid"), and
\* the goroutines are about to call l.Log.
InitGoroutines ==
    /\ writers = <<>>
    /\ logger = [w |-> Sink, facility |-> USER, hostname |-> s_hostname,
                 appName |-> s_appName, procid |-> s_procid]
    /\ ret = NoCall
    /\ pc = [g \in Goroutines |-> NotStarted]
    /\ pending = [g \in Goroutines |-> <<>>]
    /\ buf = <<>>
    /\ IdleFormat /\ IdleSD

\* Goroutine g enters logger.Log: the line is formatted and handed to l.w.Write.
\* Log takes no lock, so nothing makes the other goroutines wait.
LogEnter(g, sev, c) ==
    /\ pc[g].at = "go"
    /\ \E t \in Now, o \in RangeOrders(c.sd) :
          LET r == Log(writers, logger, sev, c.msgId, c.sd, c.msgFormat, c.a, t, "ok", o)
          IN  /\ ~r.panic
              /\ pc' = [pc EXCEPT ![g] = [at |-> "Write", line |-> r.handed[1], pieces |-> 0]]
              /\ pending' = [pending EXCEPT ![g] = r.handed[1]]
    /\ UNCHANGED <<buf, varsInstances, varsFormat, varsSD>>

\* The sink takes the next n bytes of the Write of goroutine g.  The Writes of two
\* goroutines on one sink are not ordered by anything: the bytes of one may arrive
\* between the bytes of the other.  With the last byte Write and Log return.
SinkCopy(g, n) ==
    /\ pc[g].at = "Write"
    /\ n \in 1..Len(pending[g])
    /\ pc[g].pieces + 1 = MaxPieces => n = Len(pending[g])
    /\ buf' = buf \o SubSeq(pending[g], 1, n)
    /\ pending' = [pending EXCEPT ![g] = Drop(pending[g], n)]
    /\ pc' = [pc EXCEPT ![g] = [at |-> IF n = Len(pending[g]) THEN "done" ELSE "Write",
                                line |-> pc[g].line, pieces |-> pc[g].pieces + 1]]
    /\ UNCHANGED <<varsInstances, varsFormat, varsSD>>

\* Goroutine 1 logs an error, goroutine 2 an information.
NextGoroutines ==
    \/ \E g \in Goroutines : LogEnter(g, IF g = 1 THEN ERR ELSE INFO, msgHello)
    \/ \E g \in Goroutines : \E n \in 1..Len(pending[g]) : SinkCopy(g, n)

SpecGoroutines == InitGoroutines /\ [][NextGoroutines]_vars

-----------------------------------------------------------------------------
(* C9: concurrent calls of Log                                             *)

\* The concatenations of the lines of the goroutines in S, in every order.
RECURSIVE LinesInSomeOrder(_)
LinesInSomeOrder(S) ==
    IF S = {} THEN {<<>>}
    ELSE UNION {{pc[g].line \o rest : rest \in LinesInSomeOrder(S \ {g})} : g \in S}

\* C9: when goroutines call Log on one logger at the same time, a lock around
\* format-then-write keeps the bytes of their lines apart: once the calls have
\* returned, the sink holds the complete lines one after the other, one per call.
C9_NoInterleaving ==
    (\A g \in Goroutines : pc[g].at = "done") => buf \in LinesInSomeOrder(Goroutines)

-----------------------------------------------------------------------------
(* C11: the shape of the timestamp under the default layout                *)

\* The position of the first space of s at or after position i, Len(s) + 1 when
\* there is none.
RECURSIVE SpaceFrom(_, _)
SpaceFrom(s, i) == IF i > Len(s) \/ s[i] = " " THEN i ELSE SpaceFrom(s, i + 1)

\* The second field of a line: the bytes between its first and its second space.
TimestampField(line) ==
    SubSeq(line, SpaceFrom(line, 1) + 1, SpaceFrom(line, SpaceFrom(line, 1) + 1) - 1)

IsDigits(s) == \A i \in DOMAIN s : \E v \in DOMAIN digits : digits[v] = s[i]

\* YYYY-MM-DDTHH:MM:SS.sss+HH:MM or -HH:MM
MilliShape(ts) ==
    /\ Len(ts) = 29
    /\ IsDigits(SubSeq(ts, 1, 4)) /\ ts[5] = "-" /\ IsDigits(SubSeq(ts, 6, 7)) /\ ts[8] = "-"
    /\ IsDigits(SubSeq(ts, 9, 10)) /\ ts[11] = "T" /\ IsDigits(SubSeq(ts, 12, 13))
    /\ ts[14] = ":" /\ IsDigits(SubSeq(ts, 15, 16)) /\ ts[17] = ":"
    /\ IsDigits(SubSeq(ts, 18, 19)) /\ ts[20] = "." /\ IsDigits(SubSeq(ts, 21, 23))
    /\ ts[24] \in {"+", "-"} /\ IsDigits(SubSeq(ts, 25, 26)) /\ ts[27] = ":"
    /\ IsDigits(SubSeq(ts, 28, 29))

\* C11: under the default layout the timestamp field of every line is
\* YYYY-MM-DDTHH:MM:SS.sss and the zone offset, the fraction being the three
\* digits of the milliseconds whatever their value, zero included.
C11_MilliTimestamp ==
    (fcall.op = "formatSyslog" /\ fcall.timeFormat = <<>> /\ ~fcall.out.panic) =>
        /\ MilliShape(TimestampField(fcall.out.bytes))
        /\ SubSeq(TimestampField(fcall.out.bytes), 21, 23) = Pad3(fcall.timestamp.ms)

-----------------------------------------------------------------------------
(* C12: elements without parameters                                        *)

\* The ids whose element holds at least one parameter.
NonEmptyIds(d) == {id \in DOMAIN d.m : len(d.m[id]) > 0}

\* The number of bytes of s that are b.
Count(s, b) == Cardinality({i \in DOMAIN s : s[i] = b})

\* The line formatSyslog builds around the structured data d.
LineAround(d, o) ==
    formatSyslog(BitOr(USER, ERR), Instant(335), <<>>, s_hostname, s_appName, s_procid,
                 s_LoginFailed, d, s_hello, o).bytes

\* C12: after any Element and Set calls Ids() is the ascending sequence of the ids
\* whose element holds a parameter; an id that Element created and Set never
\* filled is in the mapping but not in Ids() and not in String(); a value with
\* such entries only has the empty string for String() and "-" in the line.
C12_EmptyElementsAbsent ==
    /\ (str.op = "Ids") => (str.out = Ascending(NonEmptyIds(sd)))
    /\ (str.op = "String") =>
          /\ Count(str.out, "[") = Cardinality(NonEmptyIds(sd))
          /\ \A id \in DOMAIN sd.m \ NonEmptyIds(sd) :
                \A i \in 1..Len(str.out) :
                   ~HasPrefix(Drop(str.out, i - 1), <<"[">> \o id \o <<RB>>)
          /\ (NonEmptyIds(sd) = {}) =>
                /\ str.out = <<>>
                /\ \A o \in RangeOrders(sd) :
                      LineAround(sd, o) =
                         <<LT, "1", "1", ">", "1", " ">> \o Format(Instant(335), rfc3339Milli)
                         \o <<" ">> \o s_hostname \o <<" ">> \o s_appName \o <<" ">> \o s_procid
                         \o <<" ">> \o s_LoginFailed \o <<" ", "-", " ">> \o s_hello \o <<NL>>

\* Element("id1") with nothing set and Element("id2") with a parameter: Ids() is
\* id2 alone.
C12_Witness ==
    /\ str.op = "Ids"
    /\ DOMAIN sd.m = {s_id1, s_id2}
    /\ sd.m[s_id1] = EmptyMap /\ len(sd.m[s_id2]) > 0
    /\ str.out = <<s_id2>>

-----------------------------------------------------------------------------
(* C13: an empty body                                                      *)

\* The body of the call that has returned is empty: the bytes of a Write, the
\* interpolated message of a Log.
EmptyBody ==
    \/ ret.op = "Write" /\ ret.in.d = <<>>
    \/ ret.op = "Log" /\ Sprintf(ret.in.msgFormat, ret.in.a) = <<>>

\* C13: neither Writer.Write of no bytes nor Logger.Log of a message that
\* interpolates to the empty string faults; to an empty body no newline is
\* appended.
C13_NoFaultOnEmptyBody ==
    EmptyBody =>
        /\ ~ret.panic
        /\ \A i \in DOMAIN ret.handed : ~HasSuffix(ret.handed[i], <<" ", NL>>)

-----------------------------------------------------------------------------
(* C14: what Write returns                                                 *)

\* C14: a Write makes at most one write to the sink and returns the (n, err) of
\* that write as they are; with no bytes it returns (0, nil) and the sink is not
\* called; when the bytes are formatted and the sink accepts them all, n is the
\* length of the whole line, header and newline included, which is more than
\* len(d).
C14_WriteReturnsSinkResult ==
    (ret.op = "Write") =>
        /\ ~ret.panic
        /\ Len(ret.sink) <= 1 /\ Len(ret.handed) = Len(ret.sink)
        /\ (ret.in.d = <<>>) => (ret.sink = <<>> /\ ret.returns = <<0, NoError>>)
        /\ (ret.in.d # <<>>) =>
              /\ Len(ret.sink) = 1
              /\ ret.returns = <<ret.sink[1].n, ret.sink[1].err>>
        /\ (FormattedWrite /\ ret.sink[1].err = NoError) =>
              /\ ret.returns[1] = Len(WriterLineOf(writers[ret.obj], ret.in.t, ret.in.d))
              /\ ret.returns[1] > Len(ret.in.d)

\* hello written by the writer of priority 13 to a sink that accepts all bytes: n
\* is the length of the line.
C14_Witness ==
    /\ FormattedWrite /\ ret.in.d = s_hello /\ writers[ret.obj].pri = 13
    /\ ret.sink # <<>> /\ ret.sink[1].err = NoError
    /\ ret.returns = <<Len(ret.handed[1]), NoError>>
    /\ ret.returns[1] > Len(s_hello)

====
